---- MODULE Spec2Model ----
(***************************************************************************)
(* Model of the standalone MDM server (src/mdm-server-standalone.ts):      *)
(* the device registry `devices`, the per-device `commandQueue`, the       *)
(* check-in handlers, the command-channel handler and the submission API.  *)
(* Node runs every handler to completion on one thread, so each handler    *)
(* is one atomic action.                                                   *)
(***************************************************************************)
EXTENDS Integers, Sequences, FiniteSets, TLC

\* ------------------------------------------------------------------ bounds
MaxCmds == 2      \* commands ever created (uuidv4 is modelled by a counter)
MaxClock == 1     \* largest value the wall clock reaches
MaxLen == 2       \* longest string value of a message given to the codec
MaxKeys == 2      \* most keys of a message given to the codec

\* ------------------------------------------------------------- input sets
Undefined == "<undefined>"      \* a JS undefined in a string-valued place
NoDate == -1                    \* an unset optional Date field
NoUuid == 0                     \* a report without CommandUUID

UDIDs == {"A1", "B2"}
Tokens == {"tok1"}
CommandTypes == {"RestartDevice"}
Payloads == {{}, {<<"RequestType", "EraseDevice">>}}
Statuses == {"Idle", "Acknowledged", "Error"}

\* devices       the registry Map: udid -> MDMDevice (domain = the keys set)
\* commandQueue  the queue Map: udid -> array of MDMCommand
\* clock         what new Date() returns
\* nextUuid      the next value uuidv4() returns for a command id
\* res           the response sent to the last request
\* delivered     history: how often each command id was sent in a command
\*               request (counted up to 2)
\* codec         the wire codec at work: a message, its encoding, the decoding
\*               of that encoding
VARIABLES devices, commandQueue, clock, nextUuid, res, delivered, codec

vars == <<devices, commandQueue, clock, nextUuid, res, delivered, codec>>

\* ---------------------------------------------------------------- helpers
\* Map.get(k) on a Map modelled as a function whose domain is its key set.
Has(map, k) == k \in DOMAIN map

\* Map.set(k, v)
MapSet(map, k, v) == [x \in (DOMAIN map) \cup {k} |-> IF x = k THEN v ELSE map[x]]

\* message.X || ''
OrEmpty(v) == IF v = Undefined THEN "" ELSE v

\* commandQueue.get(udid) || []
Commands(queue, udid) == IF Has(queue, udid) THEN queue[udid] ELSE <<>>

\* Array.prototype.find: the first of the indices that pass the test, 0 if none
FirstIndex(matching) ==
    IF matching = {} THEN 0 ELSE CHOOSE i \in matching : \A j \in matching : i <= j

\* What res.status(..).send(..) puts on the wire: the HTTP status, the kind of
\* body, and for a command request (or a JSON command) its id and Command dict.
Response(status, kind, uuid, command) ==
    [status |-> status, kind |-> kind, CommandUUID |-> uuid, Command |-> command]

\* res.type('application/xml').send(toPlist({}))
EmptyAckResponse == Response(200, "empty", NoUuid, {})

\* ------------------------------------------------------------ check-in
CheckInMessage(type, udid, token, magic, attr) ==
    [MessageType |-> type, UDID |-> udid, Token |-> token, PushMagic |-> magic,
     OSVersion |-> attr, BuildVersion |-> attr, ProductName |-> attr,
     SerialNumber |-> attr, DeviceName |-> attr, Model |-> attr, ModelName |-> attr]

Attributes == {"v1"}

AuthenticateMessages ==
    {CheckInMessage("Authenticate", u, Undefined, Undefined, a) :
        u \in UDIDs, a \in Attributes}

TokenUpdateMessages ==
    {CheckInMessage("TokenUpdate", u, t, t, Undefined) : u \in UDIDs, t \in Tokens}

CheckOutMessages ==
    {CheckInMessage("CheckOut", u, Undefined, Undefined, Undefined) : u \in UDIDs}

OtherMessages ==
    {CheckInMessage(ty, u, Undefined, Undefined, Undefined) :
        ty \in {"DeclarativeManagement", Undefined}, u \in UDIDs}

CheckInMessages ==
    AuthenticateMessages \cup TokenUpdateMessages \cup CheckOutMessages \cup OtherMessages

\* The record handleAuthenticate builds.  Its `id: uuidv4()` is a random value
\* nothing in the server reads; it is left out of the record.
NewDevice(message) ==
    [udid |-> message.UDID,
     serialNumber |-> OrEmpty(message.SerialNumber),
     deviceName |-> OrEmpty(message.DeviceName),
     modelName |-> OrEmpty(message.ModelName),
     model |-> OrEmpty(message.Model),
     osVersion |-> OrEmpty(message.OSVersion),
     buildVersion |-> OrEmpty(message.BuildVersion),
     productName |-> OrEmpty(message.ProductName),
     isSupervised |-> FALSE,
     enrollmentStatus |-> "pending",
     enrolledAt |-> NoDate,
     lastCheckIn |-> NoDate,
     pushToken |-> Undefined,
     pushMagic |-> Undefined]

\* handleAuthenticate as it would be if it kept the push credentials of a
\* record that already exists.
handleAuthenticate_KeepingCredentials(message) ==
    /\ devices' = MapSet(devices, message.UDID,
                         IF Has(devices, message.UDID)
                         THEN [NewDevice(message) EXCEPT
                                  !.pushToken = devices[message.UDID].pushToken,
                                  !.pushMagic = devices[message.UDID].pushMagic]
                         ELSE NewDevice(message))
    /\ res' = EmptyAckResponse

handleAuthenticate(message) ==
    /\ devices' = MapSet(devices, message.UDID, NewDevice(message))
    /\ res' = EmptyAckResponse

\* handleTokenUpdate as it would be without the lastCheckIn stamp.
handleTokenUpdate_NoCheckInStamp(message) ==
    /\ devices' = IF Has(devices, message.UDID)
                  THEN [devices EXCEPT ![message.UDID] =
                            [@ EXCEPT !.pushToken = message.Token,
                                      !.pushMagic = message.PushMagic,
                                      !.enrollmentStatus = "enrolled",
                                      !.enrolledAt = clock]]
                  ELSE devices
    /\ res' = EmptyAckResponse

handleTokenUpdate(message) ==
    /\ devices' = IF Has(devices, message.UDID)
                  THEN [devices EXCEPT ![message.UDID] =
                            [@ EXCEPT !.pushToken = message.Token,
                                      !.pushMagic = message.PushMagic,
                                      !.enrollmentStatus = "enrolled",
                                      !.enrolledAt = clock,
                                      !.lastCheckIn = clock]]
                  ELSE devices
    /\ res' = EmptyAckResponse

\* handleCheckOut as it would be if unenrolling removed the record.
handleCheckOut_Removing(message) ==
    /\ devices' = [u \in (DOMAIN devices) \ {message.UDID} |-> devices[u]]
    /\ res' = EmptyAckResponse

handleCheckOut(message) ==
    /\ devices' = IF Has(devices, message.UDID)
                  THEN [devices EXCEPT ![message.UDID].enrollmentStatus = "unenrolled"]
                  ELSE devices
    /\ res' = EmptyAckResponse

\* app.put('/checkin') as it would be if the switch had no default branch of
\* its own and an unknown kind ran into the CheckOut case.
PutCheckin_FallThrough(message) ==
    /\ CASE message.MessageType = "Authenticate" -> handleAuthenticate(message)
         [] message.MessageType = "TokenUpdate" -> handleTokenUpdate(message)
         [] OTHER -> handleCheckOut(message)
    /\ UNCHANGED <<commandQueue, clock, nextUuid, delivered, codec>>

\* app.put('/checkin')
PutCheckin(message) ==
    /\ CASE message.MessageType = "Authenticate" -> handleAuthenticate(message)
         [] message.MessageType = "TokenUpdate" -> handleTokenUpdate(message)
         [] message.MessageType = "CheckOut" -> handleCheckOut(message)
         [] OTHER -> /\ devices' = devices
                     /\ res' = Response(400, "none", NoUuid, {})
    /\ UNCHANGED <<commandQueue, clock, nextUuid, delivered, codec>>

\* ------------------------------------------------------ command queue
NoResponse == [Status |-> Undefined, UDID |-> Undefined, CommandUUID |-> NoUuid]

\* The MDMCommand literal the three submission endpoints build.
NewCommand(udid, commandType, payload) ==
    [id |-> nextUuid,
     deviceId |-> udid,
     commandType |-> commandType,
     payload |-> payload,
     status |-> "pending",
     createdAt |-> clock,
     sentAt |-> NoDate,
     completedAt |-> NoDate,
     response |-> NoResponse,
     errorMessage |-> Undefined]

\* commands.push(command); commandQueue.set(udid, commands)
Push(queue, udid, command) == MapSet(queue, udid, Append(Commands(queue, udid), command))

\* getNextCommand as it would be if it also matched commands already sent.
getNextCommand_Unanswered(queue, udid) ==
    LET commands == Commands(queue, udid)
    IN FirstIndex({i \in 1..Len(commands) : commands[i].status \in {"pending", "sent"}})

\* Index in the device's array of the command getNextCommand returns, 0 for undefined.
getNextCommand(queue, udid) ==
    LET commands == Commands(queue, udid)
    IN FirstIndex({i \in 1..Len(commands) : commands[i].status = "pending"})

\* { RequestType: command.commandType, ...command.payload } : keys of the payload
\* override RequestType.
buildCommandRequest(command) ==
    [CommandUUID |-> command.id,
     Command |-> command.payload \cup
                 {kv \in {<<"RequestType", command.commandType>>} :
                     \A p \in command.payload : p[1] # kv[1]}]

\* processCommandResponse as it would be if it recorded the status alone.
processCommandResponse_StatusOnly(queue, udid, response) ==
    LET commands == Commands(queue, udid)
        i == FirstIndex({k \in 1..Len(commands) : commands[k].id = response.CommandUUID})
    IN IF i # 0
       THEN [queue EXCEPT ![udid][i] = [@ EXCEPT !.status = "completed"]]
       ELSE queue

\* processCommandResponse as it would be if it looked the id up in every
\* device's array instead of the reporting device's.
processCommandResponse_AnyDevice(queue, udid, response) ==
    [u \in DOMAIN queue |->
        [k \in 1..Len(queue[u]) |->
            IF queue[u][k].id = response.CommandUUID
            THEN [queue[u][k] EXCEPT !.status = "completed",
                                     !.completedAt = clock,
                                     !.response = response]
            ELSE queue[u][k]]]

\* The queue after processCommandResponse(udid, response).
processCommandResponse(queue, udid, response) ==
    LET commands == Commands(queue, udid)
        i == FirstIndex({k \in 1..Len(commands) : commands[k].id = response.CommandUUID})
    IN IF i # 0
       THEN [queue EXCEPT ![udid][i] =
                [@ EXCEPT !.status = "completed",
                          !.completedAt = clock,
                          !.response = response]]
       ELSE queue

\* The marking as it would be if it stamped sentAt and left the status alone.
MarkSent_StampOnly(queue, udid, i) ==
    [queue EXCEPT ![udid][i] = [@ EXCEPT !.sentAt = clock]]

\* nextCommand.status = 'sent'; nextCommand.sentAt = new Date()
MarkSent(queue, udid, i) ==
    [queue EXCEPT ![udid][i] = [@ EXCEPT !.status = "sent", !.sentAt = clock]]

\* ---------------------------------------------------------- responses
CommandRequestResponse(command) ==
    LET r == buildCommandRequest(command)
    IN Response(200, "commandRequest", r.CommandUUID, r.Command)

JsonCommandResponse(command) == Response(200, "json", command.id, command.payload)

Bump(id) == [delivered EXCEPT ![id] = IF @ < 2 THEN @ + 1 ELSE @]

\* The shared tail of the Idle and Acknowledged branches: look up the next
\* command in `queue`, mark it sent and answer with it, or answer empty.
DeliverNext(queue, udid) ==
    LET i == getNextCommand(queue, udid)
    IN IF i # 0
       THEN /\ commandQueue' = MarkSent(queue, udid, i)
            /\ res' = CommandRequestResponse(queue[udid][i])
            /\ delivered' = Bump(queue[udid][i].id)
       ELSE /\ commandQueue' = queue
            /\ res' = EmptyAckResponse
            /\ delivered' = delivered

StatusReports ==
    [Status : Statuses, UDID : UDIDs, CommandUUID : {NoUuid} \cup (1..MaxCmds)]

\* app.put('/mdm') as it would be without the `if (!device)` rejection: an
\* unknown identifier is served like a known one, only without the touch.
PutMdm_Unchecked(response) ==
    /\ devices' = IF Has(devices, response.UDID)
                  THEN [devices EXCEPT ![response.UDID].lastCheckIn = clock]
                  ELSE devices
    /\ IF response.Status = "Idle"
       THEN DeliverNext(commandQueue, response.UDID)
       ELSE IF response.Status = "Acknowledged"
       THEN DeliverNext(processCommandResponse(commandQueue, response.UDID, response),
                        response.UDID)
       ELSE /\ res' = EmptyAckResponse
            /\ UNCHANGED <<commandQueue, delivered>>
    /\ UNCHANGED <<clock, nextUuid, codec>>

\* app.put('/mdm')
PutMdm(response) ==
    /\ IF ~Has(devices, response.UDID)
       THEN /\ res' = Response(401, "none", NoUuid, {})
            /\ UNCHANGED <<devices, commandQueue, delivered>>
       ELSE /\ devices' = [devices EXCEPT ![response.UDID].lastCheckIn = clock]
            /\ IF response.Status = "Idle"
               THEN DeliverNext(commandQueue, response.UDID)
               ELSE IF response.Status = "Acknowledged"
               THEN DeliverNext(processCommandResponse(commandQueue, response.UDID, response),
                                response.UDID)
               ELSE /\ res' = EmptyAckResponse
                    /\ UNCHANGED <<commandQueue, delivered>>
    /\ UNCHANGED <<clock, nextUuid, codec>>

\* ------------------------------------------------------- submission API
\* app.post('/api/devices/:udid/commands')
PostCommands(udid, commandType, payload) ==
    /\ IF ~Has(devices, udid)
       THEN /\ res' = Response(404, "json", NoUuid, {})
            /\ UNCHANGED <<commandQueue, nextUuid>>
       ELSE /\ nextUuid <= MaxCmds
            /\ commandQueue' = Push(commandQueue, udid, NewCommand(udid, commandType, payload))
            /\ nextUuid' = nextUuid + 1
            /\ res' = JsonCommandResponse(NewCommand(udid, commandType, payload))
    /\ UNCHANGED <<devices, clock, delivered, codec>>

DefaultQueries == "UDID,DeviceName,OSVersion,..."

\* app.post('/api/devices/:udid/query')
PostQuery(udid) ==
    LET command == NewCommand(udid, "DeviceInformation", {<<"Queries", DefaultQueries>>})
    IN /\ nextUuid <= MaxCmds
       /\ commandQueue' = Push(commandQueue, udid, command)
       /\ nextUuid' = nextUuid + 1
       /\ res' = JsonCommandResponse(command)
       /\ UNCHANGED <<devices, clock, delivered, codec>>

\* app.post('/api/devices/:udid/lock')
PostLock(udid) ==
    LET command == NewCommand(udid, "DeviceLock",
                              {<<"Message", "Lost">>, <<"PhoneNumber", "555">>})
    IN /\ nextUuid <= MaxCmds
       /\ commandQueue' = Push(commandQueue, udid, command)
       /\ nextUuid' = nextUuid + 1
       /\ res' = JsonCommandResponse(command)
       /\ UNCHANGED <<devices, clock, delivered, codec>>

\* ------------------------------------------------------------ wire codec
\* A JS string is a sequence of characters.  The wire text is a sequence of
\* tokens: a character, or one markup tag the codec writes or matches.
StringChars == {"a", "7", "&", "<", ">"}
Whitespace == {" ", "\n"}
DigitChars == <<"0", "1", "2", "3", "4", "5", "6", "7", "8", "9">>
Digits == {DigitChars[i] : i \in 1..10}

\* <\/[^>]+>
CloseTags == {"</dict>", "</key>", "</string>", "</integer>", "</real>", "</plist>"}
\* <(true|false)\/>
BooleanTags == {"<true/>", "<false/>"}
\* <[^>]+>
AnyTag == {"<?xml?>", "<!DOCTYPE>", "<plist>", "<dict>", "<key>", "<string>",
           "<integer>", "<real>"} \cup BooleanTags \cup CloseTags
\* the tokens [^<] does not match
StartsWithLt == AnyTag \cup {"<"}

\* The scalar leaves: typeof value and the value.
StringLeaf(chars) == [type |-> "string", value |-> chars]
NumberLeaf(n) == [type |-> "number", value |-> n]
BooleanLeaf(b) == [type |-> "boolean", value |-> b]

Strings == UNION {[1..n -> StringChars] : n \in 0..MaxLen}
WholeNumbers == {0, 7, 42, -3}
Leaves ==
    {StringLeaf(s) : s \in Strings} \cup {NumberLeaf(n) : n \in WholeNumbers}
    \cup {BooleanLeaf(b) : b \in BOOLEAN}
Keys == {<<"K">>, <<"N">>}

\* Flat objects in insertion order: entries with distinct keys.
Messages ==
    {m \in UNION {[1..n -> [key : Keys, value : Leaves]] : n \in 1..MaxKeys} :
        \A i, j \in DOMAIN m : m[i].key = m[j].key => i = j}

\* String.prototype.replace(/c/g, by)
RECURSIVE ReplaceAll(_, _, _)
ReplaceAll(chars, c, by) ==
    IF chars = <<>> THEN <<>>
    ELSE (IF Head(chars) = c THEN by ELSE <<Head(chars)>>) \o ReplaceAll(Tail(chars), c, by)

\* value.replace(/&/g, '&amp;').replace(/</g, '&lt;').replace(/>/g, '&gt;')
Escape(value) ==
    ReplaceAll(ReplaceAll(ReplaceAll(value, "&", <<"&", "a", "m", "p", ";">>),
                          "<", <<"&", "l", "t", ";">>),
               ">", <<"&", "g", "t", ";">>)

\* `${value}` of a whole number
RECURSIVE NumberToString(_)
NumberToString(n) ==
    IF n < 0 THEN <<"-">> \o NumberToString(0 - n)
    ELSE IF n < 10 THEN <<DigitChars[n + 1]>>
    ELSE NumberToString(n \div 10) \o <<DigitChars[(n % 10) + 1]>>

\* convertValue on a scalar leaf (every number of the model is whole, so the
\* <real> branch is not taken).
convertValue(leaf) ==
    CASE leaf.type = "boolean" -> <<IF leaf.value THEN "<true/>" ELSE "<false/>">>
      [] leaf.type = "number" -> <<"<integer>">> \o NumberToString(leaf.value) \o <<"</integer>">>
      [] leaf.type = "string" -> <<"<string>">> \o Escape(leaf.value) \o <<"</string>">>

\* entries.map(([k, v]) => `<key>${k}</key>${convertValue(v)}`).join('')
RECURSIVE convertEntries(_)
convertEntries(entries) ==
    IF entries = <<>> THEN <<>>
    ELSE <<"<key>">> \o Head(entries).key \o <<"</key>">>
         \o convertValue(Head(entries).value) \o convertEntries(Tail(entries))

toPlist(obj) ==
    <<"<?xml?>", "\n", "<!DOCTYPE>", "\n", "<plist>", "\n">>
    \o <<"<dict>">> \o convertEntries(obj) \o <<"</dict>">>
    \o <<"\n", "</plist>">>

\* Number(value) on the strings the model's wire text can hold: '' is 0, an
\* optionally signed run of digits is its value, anything else is NaN.  (No
\* string of the model holds whitespace, a decimal point, an exponent or a
\* radix prefix.)
NaN == [nan |-> TRUE, value |-> 0]

RECURSIVE DigitsValue(_)
DigitsValue(chars) ==
    IF chars = <<>> THEN 0
    ELSE 10 * DigitsValue(SubSeq(chars, 1, Len(chars) - 1))
         + (CHOOSE d \in 0..9 : DigitChars[d + 1] = chars[Len(chars)])

IsDigits(chars) == chars # <<>> /\ \A i \in 1..Len(chars) : chars[i] \in Digits

Number(chars) ==
    IF chars = <<>> THEN [nan |-> FALSE, value |-> 0]
    ELSE IF IsDigits(chars) THEN [nan |-> FALSE, value |-> DigitsValue(chars)]
    ELSE IF Head(chars) = "-" /\ IsDigits(Tail(chars))
    THEN [nan |-> FALSE, value |-> 0 - DigitsValue(Tail(chars))]
    ELSE IF Head(chars) = "+" /\ IsDigits(Tail(chars))
    THEN [nan |-> FALSE, value |-> DigitsValue(Tail(chars))]
    ELSE NaN

\* Where a run of [^<] that starts at p ends: the first token at or after p
\* that starts with '<', or one past the end.
TextEnd(content, p) ==
    LET stops == {k \in p..Len(content) : content[k] \in StartsWithLt}
    IN IF stops = {} THEN Len(content) + 1 ELSE FirstIndex(stops)

\* Where \s* that starts at p ends.
SpaceEnd(content, p) ==
    LET stops == {k \in p..Len(content) : content[k] \notin Whitespace}
    IN IF stops = {} THEN Len(content) + 1 ELSE FirstIndex(stops)

NoMatch == [matched |-> FALSE]

\* keyRegex anchored at p:
\*   <key>([^<]+)<\/key>\s*(<[^>]+>([^<]*)<\/[^>]+>|<(true|false)\/>)
\* text is match[3] (hasText: it is not undefined), flag is match[4].
keyRegex(content, p) ==
    LET keyEnd == TextEnd(content, p + 1)
        v == SpaceEnd(content, keyEnd + 1)
        textEnd == TextEnd(content, v + 1)
    IN IF \/ content[p] # "<key>"
          \/ keyEnd = p + 1
          \/ keyEnd > Len(content)
          \/ content[keyEnd] # "</key>"
          \/ v > Len(content)
       THEN NoMatch
       ELSE IF /\ content[v] \in AnyTag
               /\ textEnd <= Len(content)
               /\ content[textEnd] \in CloseTags
       THEN [matched |-> TRUE, key |-> SubSeq(content, p + 1, keyEnd - 1),
             hasText |-> TRUE, text |-> SubSeq(content, v + 1, textEnd - 1),
             flag |-> Undefined, end |-> textEnd + 1]
       ELSE IF content[v] \in BooleanTags
       THEN [matched |-> TRUE, key |-> SubSeq(content, p + 1, keyEnd - 1),
             hasText |-> FALSE, text |-> <<>>,
             flag |-> IF content[v] = "<true/>" THEN "true" ELSE "false",
             end |-> v + 1]
       ELSE NoMatch

\* The value the loop body stores under match[1].
ParsedValue(match) ==
    IF match.flag # Undefined THEN BooleanLeaf(match.flag = "true")
    ELSE LET num == Number(match.text)
         IN IF num.nan THEN StringLeaf(match.text) ELSE NumberLeaf(num.value)

\* while ((match = keyRegex.exec(content)) !== null) { result[key] = ... }
RECURSIVE ExecLoop(_, _, _)
ExecLoop(content, p, result) ==
    IF p > Len(content) THEN result
    ELSE LET match == keyRegex(content, p)
         IN IF match.matched
            THEN ExecLoop(content, match.end, MapSet(result, match.key, ParsedValue(match)))
            ELSE ExecLoop(content, p + 1, result)

\* xml.match(/<dict>([\s\S]*?)<\/dict>/): the text between the first <dict>
\* and the first </dict> after it.
parsePlist(xml) ==
    LET open == FirstIndex({k \in 1..Len(xml) : xml[k] = "<dict>"})
        close == FirstIndex({k \in (open + 1)..Len(xml) : xml[k] = "</dict>"})
    IN IF open = 0 \/ close = 0 THEN <<>>
       ELSE ExecLoop(SubSeq(xml, open + 1, close - 1), 1, <<>>)

\* The codec applied to a message: a message is encoded, then the text decoded.
IdleCodec == [step |-> "idle", message |-> <<>>, wire |-> <<>>, decoded |-> <<>>]

Encode ==
    /\ codec.step = "message"
    /\ codec' = [codec EXCEPT !.step = "encoded", !.wire = toPlist(codec.message)]
    /\ UNCHANGED <<devices, commandQueue, clock, nextUuid, res, delivered>>

Decode ==
    /\ codec.step = "encoded"
    /\ codec' = [codec EXCEPT !.step = "decoded", !.decoded = parsePlist(codec.wire)]
    /\ UNCHANGED <<devices, commandQueue, clock, nextUuid, res, delivered>>

\* ------------------------------------------------------- time passing
\* new Date() reads the wall clock; the clock advances between requests.
Tick ==
    /\ clock < MaxClock
    /\ clock' = clock + 1
    /\ UNCHANGED <<devices, commandQueue, nextUuid, res, delivered, codec>>

Init ==
    /\ devices = <<>>
    /\ commandQueue = <<>>
    /\ clock = 0
    /\ nextUuid = 1
    /\ res = Response(0, "none", NoUuid, {})
    /\ delivered = [c \in 1..MaxCmds |-> 0]
    /\ codec = IdleCodec

\* Every request the server accepts, with device identifiers drawn from ids.
Requests(ids) ==
    \/ \E message \in {m \in CheckInMessages : m.UDID \in ids} : PutCheckin(message)
    \/ \E response \in {r \in StatusReports : r.UDID \in ids} : PutMdm(response)
    \/ \E udid \in ids, commandType \in CommandTypes, payload \in Payloads :
          PostCommands(udid, commandType, payload)
    \/ \E udid \in ids : PostQuery(udid)
    \/ \E udid \in ids : PostLock(udid)

\* One device identifier in use, requests spread over time.
Next == Requests({"A1"}) \/ Tick

Spec == Init /\ [][Next]_vars

\* Several device identifiers in use.  No handler reads a stored timestamp or
\* branches on the clock, so the requests are taken at one instant.
FleetNext == Requests(UDIDs)

FleetSpec == Init /\ [][FleetNext]_vars

\* Messages with absent fields.  parsePlist leaves a key that is not in the
\* body undefined, and a Map takes undefined as a key like any other.
AnonymousCheckIns ==
    {CheckInMessage("Authenticate", Undefined, Undefined, Undefined, a) :
        a \in Attributes \cup {Undefined}}
    \cup {CheckInMessage("TokenUpdate", Undefined, t, t, Undefined) : t \in Tokens}
    \cup {CheckInMessage("CheckOut", Undefined, Undefined, Undefined, Undefined)}

BareAuthenticates ==
    {CheckInMessage("Authenticate", "A1", Undefined, Undefined, Undefined)}

\* A body without a <dict> container: parsePlist returns {} and every field
\* of the message, MessageType among them, is undefined.
EmptyMessages ==
    {CheckInMessage(Undefined, Undefined, Undefined, Undefined, Undefined)}

AnonymousReports ==
    [Status : Statuses, UDID : {Undefined}, CommandUUID : {NoUuid} \cup (1..MaxCmds)]

\* One device identifier in use plus messages that lack the UDID key or the
\* optional attributes; the requests are taken at one instant.
LooseNext ==
    \/ Requests({"A1"})
    \/ \E message \in AnonymousCheckIns \cup BareAuthenticates \cup EmptyMessages :
          PutCheckin(message)
    \/ \E response \in AnonymousReports : PutMdm(response)

LooseSpec == Init /\ [][LooseNext]_vars

\* The codec on its own: the server is at rest and a message is handed to
\* toPlist, its output to parsePlist.
CodecInit ==
    /\ devices = <<>>
    /\ commandQueue = <<>>
    /\ clock = 0
    /\ nextUuid = 1
    /\ res = Response(0, "none", NoUuid, {})
    /\ delivered = [c \in 1..MaxCmds |-> 0]
    /\ \E message \in Messages :
          codec = [step |-> "message", message |-> message, wire |-> <<>>, decoded |-> <<>>]

CodecNext == Encode \/ Decode

CodecSpec == CodecInit /\ [][CodecNext]_vars

\* A device that follows the protocol: it polls with Idle, and the reports
\* that carry a CommandUUID are its answers to commands delivered to it.
Poll(udid) == PutMdm([Status |-> "Idle", UDID |-> udid, CommandUUID |-> NoUuid])

WasDelivered(udid, id) ==
    \E i \in 1..Len(Commands(commandQueue, udid)) :
        /\ commandQueue[udid][i].id = id
        /\ commandQueue[udid][i].status # "pending"

InFlight(udid, id) ==
    \E i \in 1..Len(Commands(commandQueue, udid)) :
        /\ commandQueue[udid][i].id = id
        /\ commandQueue[udid][i].status = "sent"

Answer(udid, id, status) ==
    /\ WasDelivered(udid, id)
    /\ PutMdm([Status |-> status, UDID |-> udid, CommandUUID |-> id])

\* The answer the device owes to a command it holds.
Acknowledge(udid, id) ==
    /\ InFlight(udid, id)
    /\ PutMdm([Status |-> "Acknowledged", UDID |-> udid, CommandUUID |-> id])

LiveDevices == {"A1"}

\* One protocol-following device, the check-in messages and the submission
\* API; the requests are taken at one instant.
LiveNext ==
    \/ \E message \in {m \in CheckInMessages : m.UDID \in LiveDevices} : PutCheckin(message)
    \/ \E udid \in LiveDevices : Poll(udid)
    \/ \E udid \in LiveDevices, id \in 1..MaxCmds, status \in {"Acknowledged", "Error"} :
          Answer(udid, id, status)
    \/ \E udid \in LiveDevices, commandType \in CommandTypes, payload \in Payloads :
          PostCommands(udid, commandType, payload)
    \/ \E udid \in LiveDevices : PostQuery(udid)
    \/ \E udid \in LiveDevices : PostLock(udid)

\* The device keeps polling and acknowledges every command it holds.
LiveSpec ==
    /\ Init
    /\ [][LiveNext]_vars
    /\ \A udid \in LiveDevices :
          /\ WF_vars(Poll(udid))
          /\ \A id \in 1..MaxCmds : WF_vars(Acknowledge(udid, id))

TypeOK ==
    /\ DOMAIN devices \subseteq UDIDs \cup {Undefined}
    /\ DOMAIN commandQueue \subseteq UDIDs
    /\ clock \in 0..MaxClock
    /\ nextUuid \in 1..(MaxCmds + 1)

\* ===================================================================
\* Properties
\* ===================================================================
Registered == DOMAIN devices
Queued == DOMAIN commandQueue

\* The positions of device u's array that exist before and after a step
\* (commands are only ever appended, so a position names one command).
Kept(u) == IF u \in Queued /\ u \in DOMAIN commandQueue'
           THEN 1..Len(commandQueue[u])
           ELSE {}

SentOf(u) == {i \in 1..Len(commandQueue[u]) : commandQueue[u][i].status = "sent"}

\* C1 (stated as claimed): single-flight - in every reachable state each device
\* has at most one command whose status is sent.
C1_SingleFlight == \A u \in Queued : Cardinality(SentOf(u)) <= 1

\* C2 (stated as claimed): queue ordering with blocking - no poll marks a
\* command sent while a command enqueued before it for the same device is
\* pending or sent (the earlier command's status is read after the step, so a
\* command the same report resolves does not count as blocking).
C2_QueueOrderingBlocking ==
    [][\A u \in UDIDs : \A j \in Kept(u) :
          (commandQueue[u][j].status = "pending" /\ commandQueue'[u][j].status = "sent")
          => \A i \in 1..(j-1) : commandQueue'[u][i].status \notin {"pending", "sent"}]_vars

\* C3: no redelivery - every command is embedded in a command-request response
\* at most once, whatever the interleaving of polls, acknowledgments and enqueues
\* of the same or of different devices, and a command that was delivered is
\* never pending again, so no later poll returns it.
C3_NoRedelivery ==
    /\ \A c \in 1..MaxCmds : delivered[c] <= 1
    /\ \A u \in Queued : \A i \in 1..Len(commandQueue[u]) :
          commandQueue[u][i].status = "pending" => delivered[commandQueue[u][i].id] = 0

\* C3 witness: a device polled again after its first command was sent and got
\* its second command, each of the two delivered exactly once.
C3_Witness ==
    \E u \in Queued :
        /\ Len(commandQueue[u]) >= 2
        /\ commandQueue[u][1].status = "sent"
        /\ commandQueue[u][2].status = "sent"
        /\ delivered[commandQueue[u][1].id] = 1
        /\ delivered[commandQueue[u][2].id] = 1
        /\ res.kind = "commandRequest"
        /\ res.CommandUUID = commandQueue[u][2].id

ForwardSteps == {<<"pending", "sent">>, <<"sent", "completed">>, <<"sent", "failed">>}

\* C4 (stated as claimed): status monotonicity - every change of a command's
\* status is one of pending -> sent, sent -> completed, sent -> failed.
C4_StatusMonotonic ==
    [][\A u \in UDIDs : \A i \in Kept(u) :
          commandQueue'[u][i].status # commandQueue[u][i].status
          => <<commandQueue[u][i].status, commandQueue'[u][i].status>> \in ForwardSteps]_vars

\* C5 (stated as claimed): an Acknowledged report that references a command not
\* in sent state resolves nothing - the command keeps its completed-at and its
\* stored response, its status is left alone by the resolution (a pending one
\* may still be delivered by the deliver-next step), and the request succeeds.
C5_ResolveNotSentIsNoop ==
    [][\A r \in StatusReports :
          (r.Status = "Acknowledged" /\ r.UDID \in Registered /\ PutMdm(r))
          => \A i \in Kept(r.UDID) :
                (commandQueue[r.UDID][i].id = r.CommandUUID
                    /\ commandQueue[r.UDID][i].status # "sent")
                => /\ commandQueue'[r.UDID][i].completedAt = commandQueue[r.UDID][i].completedAt
                   /\ commandQueue'[r.UDID][i].response = commandQueue[r.UDID][i].response
                   /\ \/ commandQueue'[r.UDID][i].status = commandQueue[r.UDID][i].status
                      \/ /\ commandQueue[r.UDID][i].status = "pending"
                         /\ commandQueue'[r.UDID][i].status = "sent"
                   /\ res'.status = 200]_vars

\* C6 (stated as claimed): no submission operation queues a command for an
\* identifier without a registry record, so every identifier that has queued
\* commands has a registry record.
C6_QueuedImpliesRegistered == Queued \subseteq Registered

EnrollmentSteps ==
    {<<"pending", "enrolled">>, <<"pending", "unenrolled">>,
     <<"enrolled", "unenrolled">>, <<"unenrolled", "pending">>}

\* C7 (stated as claimed): enrollment monotonicity - every change of a device's
\* enrollment state is pending -> enrolled, -> unenrolled, or unenrolled -> pending.
C7_EnrollmentMonotonic ==
    [][\A u \in Registered \cap DOMAIN devices' :
          devices'[u].enrollmentStatus # devices[u].enrollmentStatus
          => <<devices[u].enrollmentStatus, devices'[u].enrollmentStatus>> \in EnrollmentSteps]_vars

\* C8 (stated as claimed): Authenticate for an identifier that already has a
\* record leaves the record's enrollment state and push credentials unchanged.
C8_AuthenticateRetains ==
    [][\A m \in AuthenticateMessages :
          (m.UDID \in Registered /\ PutCheckin(m))
          => /\ devices'[m.UDID].enrollmentStatus = devices[m.UDID].enrollmentStatus
             /\ devices'[m.UDID].pushToken = devices[m.UDID].pushToken
             /\ devices'[m.UDID].pushMagic = devices[m.UDID].pushMagic]_vars

\* C9 (stated as claimed): a TokenUpdate for an identifier without a record
\* leaves a record for it in enrolled state carrying the supplied credentials.
C9_ImplicitEnroll ==
    [][\A m \in TokenUpdateMessages :
          (m.UDID \notin Registered /\ PutCheckin(m))
          => /\ m.UDID \in DOMAIN devices'
             /\ devices'[m.UDID].enrollmentStatus = "enrolled"
             /\ devices'[m.UDID].pushToken = m.Token
             /\ devices'[m.UDID].pushMagic = m.PushMagic]_vars

\* C10 (stated as claimed): an Error report referencing a command in sent state
\* turns it failed, stamps completed-at and stores the report.
C10_ErrorResolvesFailed ==
    [][\A r \in StatusReports :
          (r.Status = "Error" /\ r.UDID \in Registered /\ PutMdm(r))
          => \A i \in Kept(r.UDID) :
                (commandQueue[r.UDID][i].id = r.CommandUUID
                    /\ commandQueue[r.UDID][i].status = "sent")
                => /\ commandQueue'[r.UDID][i].status = "failed"
                   /\ commandQueue'[r.UDID][i].completedAt # NoDate
                   /\ commandQueue'[r.UDID][i].response = r]_vars

\* C11: a command-channel report from an identifier without a registry record
\* is answered with a client error and changes nothing - no record is created
\* or touched and no command, not even one queued under that identifier,
\* changes.
C11_UnknownReportRejected ==
    [][\A r \in StatusReports :
          (r.UDID \notin Registered /\ PutMdm(r))
          => /\ res'.status \in 400..499
             /\ devices' = devices
             /\ commandQueue' = commandQueue
             /\ delivered' = delivered]_vars

\* C11 witness: an unregistered identifier has a pending command queued under
\* it and its report was just answered 401.
C11_Witness ==
    /\ res.status = 401
    /\ \E u \in Queued \ Registered :
          \E i \in 1..Len(commandQueue[u]) : commandQueue[u][i].status = "pending"

\* C12 (stated as claimed): no command is marked sent for a device whose
\* enrollment state is not enrolled.
C12_OnlyEnrolledDelivered ==
    [][\A u \in UDIDs : \A j \in Kept(u) :
          (commandQueue[u][j].status = "pending" /\ commandQueue'[u][j].status = "sent")
          => (u \in Registered /\ devices[u].enrollmentStatus = "enrolled")]_vars

\* C13 (stated as claimed): an Authenticate message without a device
\* identifier yields a client error response and leaves the registry unchanged.
C13_AuthenticateNeedsIdentifier ==
    [][\A m \in AnonymousCheckIns :
          (m.MessageType = "Authenticate" /\ PutCheckin(m))
          => /\ res'.status \in 400..499
             /\ devices' = devices]_vars

\* A step that marks command j of device u sent.
Delivers(u, j) ==
    /\ commandQueue[u][j].status = "pending"
    /\ commandQueue'[u][j].status = "sent"

\* C14 (stated as claimed): whenever a poll marks a command sent it is the
\* oldest pending command of its device, the response carries that command's
\* id and kind, and the command gets sent-at stamped.
C14_OldestFirstWithIdAndKind ==
    [][\A u \in UDIDs : \A j \in Kept(u) :
          Delivers(u, j)
          => /\ \A i \in 1..(j-1) : commandQueue'[u][i].status # "pending"
             /\ res'.kind = "commandRequest"
             /\ res'.CommandUUID = commandQueue[u][j].id
             /\ <<"RequestType", commandQueue[u][j].commandType>> \in res'.Command
             /\ commandQueue'[u][j].sentAt = clock]_vars

\* The part of C14 about order, id and stamping alone (no statement on the kind).
C14_OldestFirstWithId ==
    [][\A u \in UDIDs : \A j \in Kept(u) :
          Delivers(u, j)
          => /\ \A i \in 1..(j-1) : commandQueue'[u][i].status # "pending"
             /\ res'.kind = "commandRequest"
             /\ res'.CommandUUID = commandQueue[u][j].id
             /\ commandQueue'[u][j].sentAt = clock]_vars

\* The positions of device u's array that hold a pending command.
PendingOf(u) == {i \in 1..Len(commandQueue[u]) : commandQueue[u][i].status = "pending"}

\* C15: an Acknowledged report from a registered device that references one of
\* its commands in sent state turns that command completed, stamps completed-at
\* and stores the report, and the same exchange delivers next - the oldest
\* pending command, if any, is marked sent and returned (and no other command
\* is), otherwise the answer is an empty acknowledgment.
C15_AcknowledgeResolvesAndDelivers ==
    [][\A r \in StatusReports :
          (r.Status = "Acknowledged" /\ r.UDID \in Registered /\ PutMdm(r))
          => \A i \in Kept(r.UDID) :
                (commandQueue[r.UDID][i].id = r.CommandUUID
                    /\ commandQueue[r.UDID][i].status = "sent")
                => /\ commandQueue'[r.UDID][i].status = "completed"
                   /\ commandQueue'[r.UDID][i].completedAt = clock
                   /\ commandQueue'[r.UDID][i].response = r
                   /\ IF PendingOf(r.UDID) = {}
                      THEN /\ res' = EmptyAckResponse
                           /\ \A j \in Kept(r.UDID) : ~Delivers(r.UDID, j)
                      ELSE LET first == FirstIndex(PendingOf(r.UDID))
                           IN /\ Delivers(r.UDID, first)
                              /\ \A j \in Kept(r.UDID) \ {first} : ~Delivers(r.UDID, j)
                              /\ res'.status = 200
                              /\ res'.kind = "commandRequest"
                              /\ res'.CommandUUID = commandQueue[r.UDID][first].id]_vars

\* C15 witness: a command that had been sent is completed with the Acknowledged
\* report stored, and the answer to that report delivered the device's next
\* command.
C15_Witness ==
    \E u \in Queued \cap Registered :
        /\ Len(commandQueue[u]) >= 2
        /\ commandQueue[u][1].status = "completed"
        /\ commandQueue[u][1].sentAt # NoDate
        /\ commandQueue[u][1].response.Status = "Acknowledged"
        /\ commandQueue[u][1].response.CommandUUID = commandQueue[u][1].id
        /\ commandQueue[u][2].status = "sent"
        /\ delivered[commandQueue[u][2].id] = 1
        /\ res.kind = "commandRequest"
        /\ res.CommandUUID = commandQueue[u][2].id

\* C16: for an identifier that is unseen or whose record is unenrolled,
\* Authenticate leaves one record for it, in pending state, and adds no other
\* key to the registry; a TokenUpdate with token T that finds the record
\* pending leaves it enrolled with push token T and with enrolled-at and
\* last-check-in-at set.
C16_EnrollmentFlow ==
    [][/\ \A m \in AuthenticateMessages :
             (/\ m.UDID \in Registered => devices[m.UDID].enrollmentStatus = "unenrolled"
              /\ PutCheckin(m))
             => /\ DOMAIN devices' = Registered \cup {m.UDID}
                /\ devices'[m.UDID].udid = m.UDID
                /\ devices'[m.UDID].enrollmentStatus = "pending"
                /\ \A u \in Registered \ {m.UDID} : devices'[u] = devices[u]
       /\ \A m \in TokenUpdateMessages :
             (/\ m.UDID \in Registered
              /\ devices[m.UDID].enrollmentStatus = "pending"
              /\ PutCheckin(m))
             => /\ DOMAIN devices' = Registered
                /\ devices'[m.UDID].enrollmentStatus = "enrolled"
                /\ devices'[m.UDID].pushToken = m.Token
                /\ devices'[m.UDID].enrolledAt = clock
                /\ devices'[m.UDID].lastCheckIn = clock
                /\ clock # NoDate]_vars

\* C16 witness: a device that Authenticate registered and a TokenUpdate has
\* just enrolled, with its token and both stamps set.
C16_Witness ==
    \E u \in Registered :
        /\ devices[u].enrollmentStatus = "enrolled"
        /\ devices[u].pushToken \in Tokens
        /\ devices[u].enrolledAt = clock
        /\ devices[u].lastCheckIn = clock
        /\ clock = MaxClock
        /\ res = EmptyAckResponse

\* The registry record and the command array of every device but d are what
\* they were before the step.
OthersUnchanged(d) ==
    \A u \in (UDIDs \cup {Undefined}) \ {d} :
        /\ (u \in DOMAIN devices') = (u \in Registered)
        /\ u \in Registered => devices'[u] = devices[u]
        /\ (u \in DOMAIN commandQueue') = (u \in Queued)
        /\ u \in Queued => commandQueue'[u] = commandQueue[u]

\* C17: per-device isolation - a step that is a check-in message, a
\* command-channel report or an enqueue for device D, answered with success or
\* with an error, leaves the registry record and the command array of every
\* other device unchanged (so an Acknowledged report from D naming another
\* device's command id does not change that command), and a command stays in
\* the array of the device named in its deviceId.
C17_PerDeviceIsolation ==
    /\ [][/\ \A d \in UDIDs :
                OthersUnchanged(d)
                \/ /\ \A m \in {x \in CheckInMessages : x.UDID = d} : ~PutCheckin(m)
                   /\ \A r \in {x \in StatusReports : x.UDID = d} : ~PutMdm(r)
                   /\ \A commandType \in CommandTypes, payload \in Payloads :
                         ~PostCommands(d, commandType, payload)
                   /\ ~PostQuery(d)
                   /\ ~PostLock(d)
          /\ \A u \in UDIDs : \A i \in Kept(u) :
                /\ commandQueue'[u][i].id = commandQueue[u][i].id
                /\ commandQueue'[u][i].deviceId = commandQueue[u][i].deviceId]_vars
    /\ [](\A u \in Queued : \A i \in 1..Len(commandQueue[u]) :
              commandQueue[u][i].deviceId = u)

\* C17 witness: two registered devices; one has resolved a command of its own
\* and polled to an empty answer while the other's command, delivered and not
\* yet reported on, is still in sent state with no response stored.
C17_Witness ==
    \E d \in Registered \cap Queued : \E u \in (Registered \cap Queued) \ {d} :
        /\ devices[d].lastCheckIn # NoDate
        /\ \E i \in 1..Len(commandQueue[d]) :
              /\ commandQueue[d][i].status = "completed"
              /\ commandQueue[d][i].response.UDID = d
        /\ \E j \in 1..Len(commandQueue[u]) :
              /\ commandQueue[u][j].status = "sent"
              /\ commandQueue[u][j].deviceId = u
              /\ commandQueue[u][j].response = NoResponse
        /\ res = EmptyAckResponse

\* Entry e of the message came back from the decoder under its key with the
\* same type and value.
Reproduced(e) ==
    /\ e.key \in DOMAIN codec.decoded
    /\ codec.decoded[e.key].type = e.value.type
    /\ codec.decoded[e.key].value = e.value.value

\* C18 (stated as claimed): codec round trip - decoding the encoding of a flat
\* message of scalar leaves (strings, among them empty, numeric-looking and
\* ones holding &, < or >, booleans, integers) reproduces each key with the
\* same leaf value and type.
C18_CodecRoundTrip ==
    codec.step = "decoded"
    => \A i \in 1..Len(codec.message) : Reproduced(codec.message[i])

\* A string the codec does not alter: not empty, not numeric-looking and
\* free of &, < and >.
PlainString(chars) ==
    /\ chars # <<>>
    /\ Number(chars).nan
    /\ \A i \in 1..Len(chars) : chars[i] \notin {"&", "<", ">"}

\* The part of C18 that the code has: booleans, integers and plain strings
\* are reproduced, whatever the other entries of the message are.
C18_PlainLeavesRoundTrip ==
    codec.step = "decoded"
    => \A i \in 1..Len(codec.message) :
          (codec.message[i].value.type = "string" => PlainString(codec.message[i].value.value))
          => Reproduced(codec.message[i])

\* C19: push credentials are present only once enrollment completes - in
\* every reachable state a device whose enrollment state is pending has no
\* push token and no push-magic value.
C19_PendingHasNoCredentials ==
    \A u \in Registered :
        devices[u].enrollmentStatus = "pending"
        => /\ devices[u].pushToken = Undefined
           /\ devices[u].pushMagic = Undefined

\* C19 witness: a pending device without credentials whose record replaced an
\* earlier one - a command of its queue was delivered to it in a poll, yet the
\* record bears no check-in stamp.
C19_Witness ==
    \E u \in Registered \cap Queued :
        /\ devices[u].enrollmentStatus = "pending"
        /\ devices[u].pushToken = Undefined
        /\ devices[u].pushMagic = Undefined
        /\ devices[u].lastCheckIn = NoDate
        /\ \E i \in 1..Len(commandQueue[u]) : commandQueue[u][i].status = "sent"

\* C20 (stated as claimed): TokenUpdate on an already-enrolled device is a
\* token refresh - the device stays enrolled, its push credentials become the
\* new ones, last-check-in-at is stamped anew and nothing else in the record
\* changes; enrolled-at keeps the value of the pending -> enrolled transition.
C20_TokenRefreshKeepsEnrolledAt ==
    [][\A m \in TokenUpdateMessages :
          (/\ m.UDID \in Registered
           /\ devices[m.UDID].enrollmentStatus = "enrolled"
           /\ PutCheckin(m))
          => devices'[m.UDID] = [devices[m.UDID] EXCEPT !.pushToken = m.Token,
                                                        !.pushMagic = m.PushMagic,
                                                        !.lastCheckIn = clock]]_vars

\* The part of C20 that the code has: everything but enrolled-at.
C20_TokenRefresh ==
    [][\A m \in TokenUpdateMessages :
          (/\ m.UDID \in Registered
           /\ devices[m.UDID].enrollmentStatus = "enrolled"
           /\ PutCheckin(m))
          => [devices'[m.UDID] EXCEPT !.enrolledAt = NoDate]
             = [devices[m.UDID] EXCEPT !.pushToken = m.Token,
                                       !.pushMagic = m.PushMagic,
                                       !.lastCheckIn = clock,
                                       !.enrolledAt = NoDate]]_vars

\* C21: CheckOut never removes or creates a record - for an unknown
\* identifier it leaves registry and queues unchanged and still answers with
\* an empty acknowledgment, for a known identifier it sets the enrollment
\* state to unenrolled and nothing else; and no step of any kind removes a
\* record, so an identifier that has a record has one in every later state.
C21_CheckOutKeepsRecords ==
    [][/\ \A m \in CheckOutMessages :
             PutCheckin(m)
             => /\ res' = EmptyAckResponse
                /\ commandQueue' = commandQueue
                /\ DOMAIN devices' = Registered
                /\ IF m.UDID \in Registered
                   THEN devices' = [devices EXCEPT ![m.UDID].enrollmentStatus = "unenrolled"]
                   ELSE devices' = devices
       /\ Registered \subseteq DOMAIN devices']_vars

\* C21 witness: a CheckOut has just been answered for a device that had
\* enrolled - its record is still there, unenrolled, with its credentials and
\* stamps, next to the commands queued for it.
C21_Witness ==
    \E u \in Registered \cap Queued :
        /\ devices[u].enrollmentStatus = "unenrolled"
        /\ devices[u].pushToken \in Tokens
        /\ devices[u].enrolledAt # NoDate
        /\ Len(commandQueue[u]) >= 1
        /\ res = EmptyAckResponse

\* C22: a check-in message whose kind is not Authenticate, TokenUpdate or
\* CheckOut - a message that decoded to an empty result, with no kind at all,
\* included - is answered with a client error and changes no registry or
\* queue state.
C22_UnknownKindRejected ==
    [][\A m \in OtherMessages \cup EmptyMessages :
          PutCheckin(m)
          => /\ res'.status \in 400..499
             /\ devices' = devices
             /\ commandQueue' = commandQueue]_vars

\* C22 witness: a registry with an enrolled device and a queue with a pending
\* command, and the last request was answered 400.
C22_Witness ==
    /\ res.status = 400
    /\ \E u \in Registered \cap Queued :
          /\ devices[u].enrollmentStatus = "enrolled"
          /\ \E i \in 1..Len(commandQueue[u]) : commandQueue[u][i].status = "pending"

\* Command id is in device u's array with one of the given statuses.
HasStatus(u, id, statuses) ==
    \E i \in 1..Len(Commands(commandQueue, u)) :
        /\ commandQueue[u][i].id = id
        /\ commandQueue[u][i].status \in statuses

\* Command id of device u has been marked sent (it is sent, or further on
\* with the sent-at stamp the marking left).
MarkedSent(u, id) ==
    \E i \in 1..Len(Commands(commandQueue, u)) :
        /\ commandQueue[u][i].id = id
        /\ commandQueue[u][i].status \in {"sent", "completed", "failed"}
        /\ commandQueue[u][i].sentAt # NoDate

====
